---- MODULE Spec2Model ----
(***************************************************************************)
(* docpad-plugintester: the executable's loader (source/bin.js), which      *)
(* picks the directory and entry of the plugin to test, and the tester's    *)
(* generate suite (source/index.js), which compares the generated tree      *)
(* with the expected tree after normalising whitespace.                     *)
(*                                                                          *)
(* A path is a sequence of segments; an absolute path starts with "/".      *)
(* The empty string of the source ('' / undefined) is the empty sequence    *)
(* for paths and "" for names.  File contents are sequences of one          *)
(* character strings.                                                       *)
(***************************************************************************)
EXTENDS Integers, Sequences, FiniteSets, TLC

VARIABLES
    fs,         \* bin.js: the set of paths that exist on disk
    pkg,        \* bin.js: package.json, [hasEditions, editions, main]
    argv,       \* bin.js: the cli arguments, [edition, directory]
    versions,   \* bin.js: process.versions
    lpc,        \* bin.js: "start" before loader() runs, "done" after
    sel,        \* bin.js: what loader() computed and loaded
    nConfig,    \* normalisation: the tester's config
    nText,      \* normalisation: the content of a file
    nOnce,      \* normalisation: the content, normalised
    nTwice,     \* normalisation: the normalised content, normalised again
    npc,        \* normalisation: "start", "once", "twice"
    config,             \* tester: this.config
    expectedExists,     \* tester: outExpectedPath is on disk
    action,             \* tester: the generate action, [ran, err]
    tpc,                \* tester: the callback that runs next
    scans,              \* tester: the paths scanlist was called with
    scanError,          \* tester: the error of the scan that failed
    outResults,         \* tester: the scanned tree of outPath
    outExpectedResults, \* tester: the scanned tree of outExpectedPath
    doneCalls,          \* tester: the calls of the results suite's done
    registered,         \* tester: the tests of the results suite
    ran,                \* tester: how many of them have run
    reports,            \* tester: what each test that ran reported
    customTests,        \* tester: the tests that testCustom registers
    suites,             \* tester: the items of the suite of the tester
    steps,              \* tester: the steps that ran, [name, err]
    testArgs,   \* static test: [testerConfig, this, docpad], the call
    testRun,    \* static test: what the call did
    spc         \* static test: "start" before the call, "done" after

loaderVars == <<fs, pkg, argv, versions, lpc, sel>>
normVars == <<nConfig, nText, nOnce, nTwice, npc>>
testerVars == <<config, expectedExists, action, tpc, scans, scanError,
                outResults, outExpectedResults, doneCalls, registered, ran,
                reports, customTests, suites, steps>>
staticVars == <<testArgs, testRun, spc>>
resultsVars == <<expectedExists, action, scans, scanError, outResults,
                 outExpectedResults, doneCalls, registered, ran, reports>>
vars == <<fs, pkg, argv, versions, lpc, sel,
          nConfig, nText, nOnce, nTwice, npc,
          config, expectedExists, action, tpc, scans, scanError, outResults,
          outExpectedResults, doneCalls, registered, ran, reports,
          customTests, suites, steps,
          testArgs, testRun, spc>>

(***************************************************************************)
(* Bounds                                                                   *)
(***************************************************************************)
MaxEditions == 2
MaxLen == 4

(***************************************************************************)
(* bin.js                                                                   *)
(***************************************************************************)
cwd == <<"/", "pkg">>

NoPath == <<>>

\* a name as a one segment path; '' is no path
P(name) == IF name = "" THEN NoPath ELSE <<name>>

isAbsolute(path) == Len(path) > 0 /\ path[1] = "/"

\* path.resolve: the arguments are taken right to left until the result is
\* absolute; the process's working directory is prepended when none is
RECURSIVE pathResolveFrom(_, _, _)
pathResolveFrom(paths, i, acc) ==
    IF isAbsolute(acc) THEN acc
    ELSE IF i = 0 THEN cwd \o acc
    ELSE pathResolveFrom(paths, i - 1, paths[i] \o acc)

pathResolve(paths) == pathResolveFrom(paths, Len(paths), <<>>)

\* path.extname of the entry names of the model
extname(name) ==
    CASE name = "index.js" -> ".js"
      [] name = "main.js" -> ".js"
      [] name = "index.mjs" -> ".mjs"
      [] OTHER -> ""

exists(path) == path # NoPath /\ path \in fs

resolve(paths) ==
    IF \E i \in 1..Len(paths) : paths[i] = NoPath THEN NoPath
    ELSE LET path == pathResolve(paths)
         IN  IF path # NoPath /\ exists(path) THEN path ELSE NoPath

\* a || b on strings
Or(a, b) == IF a # "" THEN a ELSE b

\* editions: every engine the edition requires is met by the runtime
isCompatibleEdition(edition, vs) ==
    \A e \in DOMAIN edition.engines :
        e \in DOMAIN vs /\ vs[e] >= edition.engines[e]

\* editions.determineEdition: the first edition, in the order of the list,
\* that is compatible; none is an error
determineEdition(editions, vs) ==
    LET ok == {i \in 1..Len(editions) : isCompatibleEdition(editions[i], vs)}
    IN  IF ok = {} THEN [threw |-> TRUE, index |-> 0]
        ELSE [threw |-> FALSE,
              index |-> CHOOSE i \in ok : \A j \in ok : i <= j]

\* the mutant of detect: the first listed edition, compatible or not
detectFirstListed(p, vs) ==
    IF Len(p.editions) = 0 THEN [threw |-> TRUE, index |-> 0]
    ELSE [threw |-> FALSE, index |-> 1]

\* loader: editions.determineEdition(pkg.editions, {versions: process.versions})
detect(p, vs) == determineEdition(p.editions, vs)

\* loader: resolve(cwd, getarg('edition') || getarg('directory'))
hinted(a) == resolve(<<cwd, P(Or(a.edition, a.directory))>>)

\* the mutant of select: a package without editions is not given the
\* working directory when no directory was resolved
selectNoDefault(p, a, vs) ==
    LET directory == hinted(a)
    IN  IF ~p.hasEditions
        THEN [threw |-> FALSE, detected |-> FALSE, entry |-> p.main,
              directory |-> directory]
        ELSE IF directory = NoPath
        THEN LET d == detect(p, vs)
             IN  IF d.threw
                 THEN [threw |-> TRUE, detected |-> TRUE, entry |-> p.main,
                       directory |-> NoPath]
                 ELSE [threw |-> FALSE, detected |-> TRUE,
                       entry |-> p.editions[d.index].entry,
                       directory |-> P(p.editions[d.index].directory)]
        ELSE [threw |-> FALSE, detected |-> FALSE, entry |-> p.main,
              directory |-> directory]

\* loader: the directory and the entry, from the argument, the package and,
\* when the package has editions and no directory was resolved, the editions
select(p, a, vs) ==
    LET directory == hinted(a)
    IN  IF ~p.hasEditions
        THEN [threw |-> FALSE, detected |-> FALSE, entry |-> p.main,
              directory |-> IF directory = NoPath THEN cwd ELSE directory]
        ELSE IF directory = NoPath
        THEN LET d == detect(p, vs)
             IN  IF d.threw
                 THEN [threw |-> TRUE, detected |-> TRUE, entry |-> p.main,
                       directory |-> NoPath]
                 ELSE [threw |-> FALSE, detected |-> TRUE,
                       entry |-> p.editions[d.index].entry,
                       directory |-> P(p.editions[d.index].directory)]
        ELSE [threw |-> FALSE, detected |-> FALSE, entry |-> p.main,
              directory |-> directory]

\* the mutant of discoverMain: the extensions js and mjs are tried when the
\* path itself does not exist
discoverMainProbing(directory, entry) ==
    LET bare == resolve(<<directory, P(entry)>>)
        js == resolve(<<directory, P(entry \o ".js")>>)
        mjs == resolve(<<directory, P(entry \o ".mjs")>>)
    IN  IF bare # NoPath THEN bare ELSE IF js # NoPath THEN js ELSE mjs

\* loader: const main = resolve(directory, entry)
discoverMain(directory, entry) == resolve(<<directory, P(entry)>>)

\* loader: const test = resolve(directory, 'test' + pathUtil.extname(entry))
discoverTest(directory, entry) ==
    resolve(<<directory, P("test" \o extname(entry))>>)

\* loader: const tester = resolve(directory, 'tester' + pathUtil.extname(entry))
discoverTester(directory, entry) ==
    resolve(<<directory, P("tester" \o extname(entry))>>)

NoSelection ==
    [threw |-> FALSE, error |-> "", detected |-> FALSE, directory |-> NoPath,
     entry |-> "", main |-> NoPath, test |-> NoPath, tester |-> NoPath,
     required |-> <<>>, runner |-> ""]

\* the mutant of loaded: the plugin is required before the test file is
\* looked at
loadedMainFirst(p, a, vs) ==
    IF resolve(<<cwd, <<"package.json">>>>) = NoPath
    THEN [NoSelection EXCEPT !.threw = TRUE, !.error = "no package.json"]
    ELSE LET s == select(p, a, vs) IN
    IF s.threw
    THEN [NoSelection EXCEPT !.threw = TRUE, !.error = "no edition",
                             !.detected = s.detected]
    ELSE LET main == discoverMain(s.directory, s.entry)
             test == discoverTest(s.directory, s.entry)
             tester == discoverTester(s.directory, s.entry)
             found == [NoSelection EXCEPT !.detected = s.detected,
                           !.directory = s.directory, !.entry = s.entry,
                           !.main = main, !.test = test, !.tester = tester]
    IN  IF test # NoPath
        THEN [found EXCEPT !.required = <<main, test>>, !.runner = "test"]
        ELSE IF main = NoPath
        THEN [found EXCEPT !.threw = TRUE, !.error = "cannot require main"]
        ELSE IF tester # NoPath
        THEN [found EXCEPT !.required = <<main, tester>>, !.runner = "tester"]
        ELSE [found EXCEPT !.required = <<main, <<"standard">>>>,
                           !.runner = "standard"]
\* loader(): what it returns or throws
loaded(p, a, vs) ==
    IF resolve(<<cwd, <<"package.json">>>>) = NoPath
    THEN [NoSelection EXCEPT !.threw = TRUE, !.error = "no package.json"]
    ELSE LET s == select(p, a, vs) IN
    IF s.threw
    THEN [NoSelection EXCEPT !.threw = TRUE, !.error = "no edition",
                             !.detected = s.detected]
    ELSE LET main == discoverMain(s.directory, s.entry)
             test == discoverTest(s.directory, s.entry)
             tester == discoverTester(s.directory, s.entry)
             found == [NoSelection EXCEPT !.detected = s.detected,
                           !.directory = s.directory, !.entry = s.entry,
                           !.main = main, !.test = test, !.tester = tester]
    IN  IF test # NoPath
        THEN [found EXCEPT !.required = <<test>>, !.runner = "test"]
        ELSE IF main = NoPath
        THEN [found EXCEPT !.threw = TRUE, !.error = "cannot require main"]
        ELSE IF tester # NoPath
        THEN [found EXCEPT !.required = <<main, tester>>, !.runner = "tester"]
        ELSE [found EXCEPT !.required = <<main, <<"standard">>>>,
                           !.runner = "standard"]

Loader ==
    /\ lpc = "start"
    /\ sel' = loaded(pkg, argv, versions)
    /\ lpc' = "done"
    /\ UNCHANGED <<fs, pkg, argv, versions>>
    /\ UNCHANGED <<normVars, testerVars, staticVars>>

(***************************************************************************)
(* index.js: the normalisation of a file's content before the comparison    *)
(***************************************************************************)
\* \s of a regular expression, among the characters of the model
isWhitespace(c) == c \in {" ", "\n", "\t"}

\* text.replace(removeWhitespaceRegex, '')
removeWhitespaceRegex(text) == SelectSeq(text, LAMBDA c : ~isWhitespace(c))

RECURSIVE trimStart(_)
trimStart(text) ==
    IF text = <<>> THEN <<>>
    ELSE IF isWhitespace(Head(text)) THEN trimStart(Tail(text))
    ELSE text

RECURSIVE trimEnd(_)
trimEnd(text) ==
    IF text = <<>> THEN <<>>
    ELSE IF isWhitespace(text[Len(text)])
    THEN trimEnd(SubSeq(text, 1, Len(text) - 1))
    ELSE text

\* the mutant of trimRegex: without the g flag only the first match, the
\* whitespace at the start, is replaced
trimRegexFirstMatch(text) ==
    IF text # <<>> /\ isWhitespace(Head(text)) THEN trimStart(text)
    ELSE trimEnd(text)

\* text.replace(trimRegex, '')
trimRegex(text) == trimEnd(trimStart(text))

\* the mutant of removeLineRegex: the runs of newlines are left as they are
removeLineRegexNothing(text) == text

\* text.replace(removeLineRegex, '\n')
RECURSIVE removeLineRegex(_)
removeLineRegex(text) ==
    IF Len(text) < 2 THEN text
    ELSE IF text[1] = "\n" /\ text[2] = "\n" THEN removeLineRegex(Tail(text))
    ELSE <<text[1]>> \o removeLineRegex(Tail(text))

\* text.split('\n')
RECURSIVE split(_)
split(text) ==
    IF \A i \in 1..Len(text) : text[i] # "\n" THEN <<text>>
    ELSE LET i == CHOOSE k \in 1..Len(text) :
                    text[k] = "\n" /\ \A j \in 1..(k - 1) : text[j] # "\n"
         IN  <<SubSeq(text, 1, i - 1)>> \o split(SubSeq(text, i + 1, Len(text)))

\* lines.join('\n')
RECURSIVE join(_)
join(lines) ==
    IF lines = <<>> THEN <<>>
    ELSE IF Len(lines) = 1 THEN lines[1]
    ELSE lines[1] \o <<"\n">> \o join(Tail(lines))

\* the trim of every line, the removal of the empty lines, the trim of the
\* whole
trimLines(text) ==
    LET lines == split(text)
        trimmed == [i \in 1..Len(lines) |-> trimRegex(lines[i])]
    IN  trimRegex(removeLineRegex(join(trimmed)))

\* config.contentRemoveRegex: null (NoRegex), or a regular expression with
\* the g flag that matches a literal
NoRegex == [source |-> <<>>]

RECURSIVE replaceAll(_, _)
replaceAll(text, source) ==
    IF Len(text) < Len(source) THEN text
    ELSE IF SubSeq(text, 1, Len(source)) = source
    THEN replaceAll(SubSeq(text, Len(source) + 1, Len(text)), source)
    ELSE <<Head(text)>> \o replaceAll(Tail(text), source)

\* text.replace(contentRemoveRegex, '')
contentRemove(text, regex) == replaceAll(text, regex.source)

\* the mutant of mode: the removeWhitespace of before 1.6.0 is not looked at
modeIgnoringLegacy(c) ==
    IF c.whitespace = "remove" THEN "remove"
    ELSE IF c.whitespace = "trim" THEN "trim"
    ELSE "none"

\* the branch of the comparison that the config takes
mode(c) ==
    IF c.whitespace = "remove" \/ c.removeWhitespace THEN "remove"
    ELSE IF c.whitespace = "trim" THEN "trim"
    ELSE "none"

\* what the comparison makes of one side's content
normalize(text, c) ==
    LET spaced == CASE mode(c) = "remove" -> removeWhitespaceRegex(text)
                    [] mode(c) = "trim" -> trimLines(text)
                    [] OTHER -> text
    IN  IF c.contentRemoveRegex # NoRegex
        THEN contentRemove(spaced, c.contentRemoveRegex)
        ELSE spaced

NormalizeOnce ==
    /\ npc = "start"
    /\ nOnce' = normalize(nText, nConfig)
    /\ npc' = "once"
    /\ UNCHANGED <<nConfig, nText, nTwice>>
    /\ UNCHANGED <<loaderVars, testerVars, staticVars>>

NormalizeTwice ==
    /\ npc = "once"
    /\ nTwice' = normalize(nOnce, nConfig)
    /\ npc' = "twice"
    /\ UNCHANGED <<nConfig, nText, nOnce>>
    /\ UNCHANGED <<loaderVars, testerVars, staticVars>>

(***************************************************************************)
(* The inputs of the normalisation                                          *)
(***************************************************************************)
Chars == {"a", "b", " ", "\n"}

Texts == UNION {[1..n -> Chars] : n \in 0..MaxLen}

\* whitespace: "false" is the false of the source
Whitespaces == {"false", "remove", "trim"}

Regexes ==
    {NoRegex, [source |-> <<"a">>], [source |-> <<"a", "b">>]}

Configs ==
    [whitespace : Whitespaces, removeWhitespace : BOOLEAN,
     contentRemoveRegex : Regexes]

\* autoExit: "false" is the false of the source
DefaultConfig ==
    [whitespace |-> "trim", removeWhitespace |-> FALSE,
     contentRemoveRegex |-> NoRegex, autoExit |-> "safe"]

(***************************************************************************)
(* index.js: test, testInit, testCustom and finish.  The suite of the       *)
(* tester runs its items one after the other, in the order in which they    *)
(* were registered, and goes on to the next item after a test that failed   *)
(***************************************************************************)
NoError == ""

truthy(value) == value # "false"

Range(seq) == {seq[i] : i \in 1..Len(seq)}

\* the mutant of suiteItems: finish up is registered whatever autoExit is
suiteItemsAlwaysFinish(c, custom) ==
    <<"init", "generate">> \o custom \o <<"finish up">>

\* the items that testInit, testGenerate, testCustom and finish register
suiteItems(c, custom) ==
    <<"init", "generate">> \o custom
    \o (IF truthy(c.autoExit) THEN <<"finish up">> ELSE <<>>)

\* the item that the suite runs after the item, "end" after the last
after(item) ==
    LET i == CHOOSE j \in 1..Len(suites) : suites[j] = item
    IN  IF i < Len(suites) THEN suites[i + 1] ELSE "end"

\* test(): the suite of the tester and its items
Test ==
    /\ tpc = "test"
    /\ suites' = suiteItems(config, customTests)
    /\ tpc' = "create"
    /\ UNCHANGED <<config, customTests, steps>>
    /\ UNCHANGED resultsVars
    /\ UNCHANGED <<loaderVars, normVars, staticVars>>

\* test('create'): new DocPad(docpadConfig, done) completes, with or
\* without an error
Create ==
    /\ tpc = "create"
    /\ \E err \in {NoError, "create error"} :
            steps' = Append(steps, [name |-> "create", err |-> err])
    /\ tpc' = "clean"
    /\ UNCHANGED <<config, customTests, suites>>
    /\ UNCHANGED resultsVars
    /\ UNCHANGED <<loaderVars, normVars, staticVars>>

\* test('clean'): docpad.action('clean', done) completes
Clean ==
    /\ tpc = "clean"
    /\ \E err \in {NoError, "clean error"} :
            steps' = Append(steps, [name |-> "clean", err |-> err])
    /\ tpc' = "install"
    /\ UNCHANGED <<config, customTests, suites>>
    /\ UNCHANGED resultsVars
    /\ UNCHANGED <<loaderVars, normVars, staticVars>>

\* test('install'): docpad.action('install', done) completes
Install ==
    /\ tpc = "install"
    /\ \E err \in {NoError, "install error"} :
            steps' = Append(steps, [name |-> "install", err |-> err])
    /\ tpc' = "action"
    /\ UNCHANGED <<config, customTests, suites>>
    /\ UNCHANGED resultsVars
    /\ UNCHANGED <<loaderVars, normVars, staticVars>>

\* the suite generate has completed: its suite results has called done and
\* the tests that it registered have run
generated == tpc = "run" /\ ran = Len(registered)

\* a test that an extension of the tester registered in testCustom runs
RunCustom ==
    /\ generated
    /\ after("generate") = "custom"
    /\ \E err \in {NoError, "custom error"} :
            steps' = Append(steps, [name |-> "custom", err |-> err])
    /\ tpc' = after("custom")
    /\ UNCHANGED <<config, customTests, suites>>
    /\ UNCHANGED resultsVars
    /\ UNCHANGED <<loaderVars, normVars, staticVars>>

\* test('finish up'): docpad.action('destroy', next) completes
FinishUp ==
    /\ \/ generated /\ after("generate") = "finish up"
       \/ tpc = "finish up"
    /\ \E err \in {NoError, "destroy error"} :
            steps' = Append(steps, [name |-> "destroy", err |-> err])
    /\ tpc' = "end"
    /\ UNCHANGED <<config, customTests, suites>>
    /\ UNCHANGED resultsVars
    /\ UNCHANGED <<loaderVars, normVars, staticVars>>

(***************************************************************************)
(* index.js: testGenerate, the suite generate and its suite results         *)
(***************************************************************************)
\* the contents of the files of the trees
FileContents == {<<"a", "\n">>, <<"a">>, <<"a", " ", "b">>}

\* the files of a tree, in the order of the scan
KeyOrder == <<"a.txt", "b.txt">>

\* Object.keys(tree)
keys(tree) == SelectSeq(KeyOrder, LAMBDA k : k \in DOMAIN tree)

\* underscore's difference(a, b)
difference(a, b) == SelectSeq(a, LAMBDA k : k \notin Range(b))

\* tree[key] of a key the tree does not have
Undefined == <<"undefined">>

get(tree, key) == IF key \in DOMAIN tree THEN tree[key] ELSE Undefined

\* the actual side: lines 655, 662-667 and 679
normalizeActual(actual, c) == normalize(actual, c)

\* the expected side: lines 656, 668-673 and 680
normalizeExpected(expected, c) == normalize(expected, c)

\* the message of the content comparison
message(c) ==
    <<"content comparison">>
    \o (CASE mode(c) = "remove" -> <<"with whitespace removed">>
          [] mode(c) = "trim" -> <<"with whitespace trimmed">>
          [] OTHER -> <<>>)
    \o (IF c.contentRemoveRegex # NoRegex
        THEN <<"with content regex applied">> ELSE <<>>)

\* balUtil.scanlist: a tree, from the path of each file to its content
Trees == UNION {[ks -> FileContents] : ks \in SUBSET Range(KeyOrder)}

\* test('action'): docpad.action('generate', ...) completes, with or
\* without an error
GenerateAction ==
    /\ tpc = "action"
    /\ \E err \in {NoError, "generate error"} :
            /\ action' = [ran |-> TRUE, err |-> err]
            /\ steps' = Append(steps, [name |-> "generate", err |-> err])
    /\ tpc' = "results"
    /\ UNCHANGED <<config, expectedExists, scans, scanError, outResults,
                   outExpectedResults, doneCalls, registered, ran, reports>>
    /\ UNCHANGED <<customTests, suites>>
    /\ UNCHANGED <<loaderVars, normVars, staticVars>>

\* the mutant of ResultsExists: the results are compared whether or not
\* outExpectedPath exists
ResultsExistsNoSkip ==
    /\ tpc = "results"
    /\ scans' = Append(scans, "outPath")
    /\ tpc' = "scanActual"
    /\ UNCHANGED doneCalls
    /\ UNCHANGED <<config, expectedExists, action, scanError, outResults,
                   outExpectedResults, registered, ran, reports>>
    /\ UNCHANGED <<customTests, suites, steps>>
    /\ UNCHANGED <<loaderVars, normVars, staticVars>>

\* suite('results'): the callback of safefs.exists(outExpectedPath, ...)
ResultsExists ==
    /\ tpc = "results"
    /\ IF ~expectedExists
       THEN /\ doneCalls' = Append(doneCalls, NoError)
            /\ tpc' = "run"
            /\ UNCHANGED scans
       ELSE /\ scans' = Append(scans, "outPath")
            /\ tpc' = "scanActual"
            /\ UNCHANGED doneCalls
    /\ UNCHANGED <<config, expectedExists, action, scanError, outResults,
                   outExpectedResults, registered, ran, reports>>
    /\ UNCHANGED <<customTests, suites, steps>>
    /\ UNCHANGED <<loaderVars, normVars, staticVars>>

\* the mutant of ScanActual: the error of the scan is not looked at
ScanActualIgnoringError ==
    /\ tpc = "scanActual"
    /\ \E err \in {NoError, "outPath error"}, tree \in Trees :
            /\ outResults' = IF err # NoError THEN <<>> ELSE tree
            /\ scans' = Append(scans, "outExpectedPath")
            /\ tpc' = "scanExpected"
            /\ scanError' = err
            /\ UNCHANGED doneCalls
    /\ UNCHANGED <<config, expectedExists, action, outExpectedResults,
                   registered, ran, reports>>
    /\ UNCHANGED <<customTests, suites, steps>>
    /\ UNCHANGED <<loaderVars, normVars, staticVars>>

\* the callback of balUtil.scanlist(outPath, ...)
ScanActual ==
    /\ tpc = "scanActual"
    /\ \/ \E err \in {"outPath error"} :
            /\ doneCalls' = Append(doneCalls, err)
            /\ scanError' = err
            /\ tpc' = "run"
            /\ UNCHANGED <<scans, outResults>>
       \/ \E tree \in Trees :
            /\ outResults' = tree
            /\ scans' = Append(scans, "outExpectedPath")
            /\ tpc' = "scanExpected"
            /\ UNCHANGED <<doneCalls, scanError>>
    /\ UNCHANGED <<config, expectedExists, action, outExpectedResults,
                   registered, ran, reports>>
    /\ UNCHANGED <<customTests, suites, steps>>
    /\ UNCHANGED <<loaderVars, normVars, staticVars>>

\* the tests that the callback of the second scan registers
tests(results) ==
    <<[name |-> "same files", key |-> ""]>>
    \o [i \in 1..Len(keys(results)) |->
            [name |-> "same file content for", key |-> keys(results)[i]]]

\* the callback of balUtil.scanlist(outExpectedPath, ...)
ScanExpected ==
    /\ tpc = "scanExpected"
    /\ \/ \E err \in {"outExpectedPath error"} :
            /\ doneCalls' = Append(doneCalls, err)
            /\ scanError' = err
            /\ UNCHANGED <<outExpectedResults, registered>>
       \/ \E tree \in Trees :
            /\ outExpectedResults' = tree
            /\ registered' = tests(outResults)
            /\ doneCalls' = Append(doneCalls, NoError)
            /\ UNCHANGED scanError
    /\ tpc' = "run"
    /\ UNCHANGED <<config, expectedExists, action, scans, outResults, ran,
                   reports>>
    /\ UNCHANGED <<customTests, suites, steps>>
    /\ UNCHANGED <<loaderVars, normVars, staticVars>>

Report(name, key, outcome, msg, actual, expected) ==
    [name |-> name, key |-> key, outcome |-> outcome, message |-> msg,
     actual |-> actual, expected |-> expected]

\* test('same files'): what it reports
sameFiles(results, expectedResults) ==
    LET outResultsKeys == keys(results)
        outExpectedResultsKeys == keys(expectedResults)
        outDifferenceKeysA == difference(outExpectedResultsKeys, outResultsKeys)
        outDifferenceKeysB == difference(outResultsKeys, outExpectedResultsKeys)
    IN  IF outDifferenceKeysA # <<>>
        THEN Report("same files", "", "AssertionError",
                    <<"The following file(s) should have been generated">>,
                    outDifferenceKeysA, <<>>)
        ELSE IF outDifferenceKeysB # <<>>
        THEN Report("same files", "", "AssertionError",
                    <<"The following file(s) should not have been generated">>,
                    outDifferenceKeysB, <<>>)
        ELSE Report("same files", "", "pass", <<>>, <<>>, <<>>)

\* test(`same file content for: ${key}`): what it reports
sameFileContent(key, results, expectedResults, c) ==
    LET actual == get(results, key)
        expected == get(expectedResults, key)
        replaces == mode(c) # "none" \/ c.contentRemoveRegex # NoRegex
    IN  IF replaces /\ (actual = Undefined \/ expected = Undefined)
        THEN Report("same file content for", key, "TypeError", <<>>,
                    actual, expected)
        ELSE LET a == IF actual = Undefined THEN actual
                      ELSE normalizeActual(actual, c)
                 e == IF expected = Undefined THEN expected
                      ELSE normalizeExpected(expected, c)
             IN  Report("same file content for", key,
                        IF a = e THEN "pass" ELSE "AssertionError",
                        message(c), a, e)

\* the results suite runs its next test, the same files test
RunSameFiles ==
    /\ tpc = "run"
    /\ ran < Len(registered)
    /\ registered[ran + 1].name = "same files"
    /\ reports' = Append(reports, sameFiles(outResults, outExpectedResults))
    /\ ran' = ran + 1
    /\ UNCHANGED <<config, expectedExists, action, tpc, scans, outResults,
                   outExpectedResults, doneCalls, registered, scanError>>
    /\ UNCHANGED <<customTests, suites, steps>>
    /\ UNCHANGED <<loaderVars, normVars, staticVars>>

\* the results suite runs its next test, a same file content test
RunSameFileContent ==
    /\ tpc = "run"
    /\ ran < Len(registered)
    /\ registered[ran + 1].name = "same file content for"
    /\ reports' = Append(reports,
            sameFileContent(registered[ran + 1].key, outResults,
                            outExpectedResults, config))
    /\ ran' = ran + 1
    /\ UNCHANGED <<config, expectedExists, action, tpc, scans, outResults,
                   outExpectedResults, doneCalls, registered, scanError>>
    /\ UNCHANGED <<customTests, suites, steps>>
    /\ UNCHANGED <<loaderVars, normVars, staticVars>>

(***************************************************************************)
(* index.js: the static test                                                *)
(***************************************************************************)
\* a property that the config does not have, or has with a falsy value
Absent == ""

NoRun ==
    [threw |-> FALSE, error |-> "", warned |-> FALSE, instances |-> <<>>,
     suites |-> <<>>, returned |-> ""]

\* the mutant of staticTest: the tester class is testerClass when it is
\* given
staticTestLegacyClass(testerConfig, this, docpad) ==
    IF testerConfig.testerPath # Absent
    THEN [NoRun EXCEPT !.threw = TRUE, !.error = "testerPath"]
         @@ [testerConfig |-> testerConfig]
    ELSE LET pluginPath == pathResolve(
                 <<IF testerConfig.pluginPath # NoPath
                   THEN testerConfig.pluginPath ELSE cwd>>)
             DocPad == IF testerConfig.DocPad # Absent
                       THEN testerConfig.DocPad
                       ELSE IF docpad = "install" THEN "docpad"
                       ELSE IF docpad = "link" THEN "node_modules/docpad"
                       ELSE Absent
             resolved == [testerConfig EXCEPT !.pluginPath = pluginPath,
                                              !.DocPad = DocPad]
             TesterClass == Or(testerConfig.testerClass,
                               Or(resolved.TesterClass, this))
         IN  IF DocPad = Absent
             THEN [NoRun EXCEPT !.threw = TRUE, !.error = "docpad"]
                  @@ [testerConfig |-> resolved]
             ELSE [NoRun EXCEPT
                     !.instances = <<[class |-> TesterClass,
                                      testerConfig |-> resolved]>>,
                     !.suites = <<TesterClass>>,
                     !.returned = this]
                  @@ [testerConfig |-> resolved]

\* static test(testerConfig, docpadConfig), called on the class this, with
\* docpad installed, linked or not there: the config as the call leaves it,
\* the testers created and the suites that their test() registered
staticTest(testerConfig, this, docpad) ==
    IF testerConfig.testerPath # Absent
    THEN [NoRun EXCEPT !.threw = TRUE, !.error = "testerPath"]
         @@ [testerConfig |-> testerConfig]
    ELSE LET warned == testerConfig.testerClass # Absent
             deleted == IF warned
                        THEN [testerConfig EXCEPT !.testerClass = Absent]
                        ELSE testerConfig
             pluginPath == pathResolve(
                 <<IF deleted.pluginPath # NoPath
                   THEN deleted.pluginPath ELSE cwd>>)
             DocPad == IF deleted.DocPad # Absent THEN deleted.DocPad
                       ELSE IF docpad = "install" THEN "docpad"
                       ELSE IF docpad = "link" THEN "node_modules/docpad"
                       ELSE Absent
             resolved == [deleted EXCEPT !.pluginPath = pluginPath,
                                         !.DocPad = DocPad]
             TesterClass == Or(resolved.TesterClass, this)
         IN  IF DocPad = Absent
             THEN [NoRun EXCEPT !.threw = TRUE, !.error = "docpad",
                                !.warned = warned]
                  @@ [testerConfig |-> resolved]
             ELSE [NoRun EXCEPT
                     !.warned = warned,
                     !.instances = <<[class |-> TesterClass,
                                      testerConfig |-> resolved]>>,
                     !.suites = <<TesterClass>>,
                     !.returned = this]
                  @@ [testerConfig |-> resolved]

StaticTest ==
    /\ spc = "start"
    /\ testRun' = staticTest(testArgs.testerConfig, testArgs.this,
                             testArgs.docpad)
    /\ spc' = "done"
    /\ UNCHANGED testArgs
    /\ UNCHANGED <<loaderVars, normVars, testerVars>>

(***************************************************************************)
(* The inputs of the tester                                                 *)
(***************************************************************************)
TesterConfigs ==
    [whitespace : Whitespaces, removeWhitespace : BOOLEAN,
     contentRemoveRegex : {NoRegex, [source |-> <<"a">>]},
     autoExit : {"safe", "false"}]

\* testCustom of the tester registers nothing, an extension may register
\* tests
CustomTests == {<<>>, <<"custom">>}

(***************************************************************************)
(* The inputs of the static test                                            *)
(***************************************************************************)
StaticConfigs ==
    [testerPath : {Absent, "tester.js"},
     testerClass : {Absent, "LegacyTester"},
     TesterClass : {Absent, "CustomTester"},
     DocPad : {Absent, "DocPad"},
     pluginPath : {NoPath, <<"plugin">>}]

StaticArgs ==
    [testerConfig : StaticConfigs,
     this : {"PluginTester", "ExtendedTester"},
     docpad : {"install", "link", "none"}]

(***************************************************************************)
(* The inputs of the loader                                                 *)
(***************************************************************************)
NodeVersions == {6, 8, 12}
Requirements == {8, 10}

Editions ==
    {[directory |-> "edA", entry |-> "main.js", engines |-> [node |-> r]] :
        r \in Requirements}
    \cup
    {[directory |-> "edB", entry |-> "index.js", engines |-> [node |-> r]] :
        r \in Requirements}

EditionLists ==
    {l \in UNION {[1..n -> Editions] : n \in 0..MaxEditions} :
        \A i, j \in 1..Len(l) : i # j => l[i].directory # l[j].directory}

Packages ==
    {[hasEditions |-> FALSE, editions |-> <<>>, main |-> m] :
        m \in {"index.js", "index"}}
    \cup
    {[hasEditions |-> TRUE, editions |-> l, main |-> m] :
        l \in EditionLists, m \in {"index.js", "index"}}

Args == [edition : {"", "edA"}, directory : {"", "edB"}]

InDir(dir, names) == {dir \o <<n>> : n \in names}

RootFiles == InDir(cwd, {"package.json", "index.js", "test.js"})
EdA == cwd \o <<"edA">>
EdB == cwd \o <<"edB">>
EdAFiles == InDir(EdA, {"index.js", "main.js", "test.js", "tester.js"})
EdBFiles == InDir(EdB, {"index.js", "index.mjs"})

\* a file exists only in a directory that exists
FileSystems ==
    {{cwd} \cup r \cup a \cup b :
        r \in SUBSET RootFiles,
        a \in {{}} \cup {{EdA} \cup x : x \in SUBSET EdAFiles},
        b \in {{}} \cup {{EdB} \cup x : x \in SUBSET EdBFiles}}


(***************************************************************************)
(* The specifications: the loader, the normalisation and the tester are     *)
(* checked apart, each with the others idle                                 *)
(***************************************************************************)
StaticIdle ==
    /\ testArgs = [testerConfig |->
                      [testerPath |-> Absent, testerClass |-> Absent,
                       TesterClass |-> Absent, DocPad |-> Absent,
                       pluginPath |-> NoPath],
                   this |-> "PluginTester", docpad |-> "install"]
    /\ testRun = NoRun @@ [testerConfig |-> testArgs.testerConfig]
    /\ spc = "idle"

LoaderIdle ==
    /\ fs = {cwd}
    /\ pkg = [hasEditions |-> FALSE, editions |-> <<>>, main |-> "index.js"]
    /\ argv = [edition |-> "", directory |-> ""]
    /\ versions = [node |-> 12]
    /\ lpc = "idle"
    /\ sel = NoSelection

NormIdle ==
    /\ nConfig = DefaultConfig
    /\ nText = <<>>
    /\ nOnce = <<>>
    /\ nTwice = <<>>
    /\ npc = "idle"

TesterIdle ==
    /\ config = DefaultConfig
    /\ expectedExists = FALSE
    /\ action = [ran |-> FALSE, err |-> NoError]
    /\ tpc = "idle"
    /\ scans = <<>>
    /\ scanError = NoError
    /\ outResults = <<>>
    /\ outExpectedResults = <<>>
    /\ doneCalls = <<>>
    /\ registered = <<>>
    /\ ran = 0
    /\ reports = <<>>
    /\ customTests = <<>>
    /\ suites = <<>>
    /\ steps = <<>>

InitLoader ==
    /\ fs \in FileSystems
    /\ pkg \in Packages
    /\ argv \in Args
    /\ versions \in [node : NodeVersions]
    /\ lpc = "start"
    /\ sel = NoSelection
    /\ NormIdle
    /\ TesterIdle
    /\ StaticIdle

NextLoader == Loader

SpecLoader == InitLoader /\ [][NextLoader]_vars

InitNorm ==
    /\ nConfig \in Configs
    /\ nText \in Texts
    /\ nOnce = <<>>
    /\ nTwice = <<>>
    /\ npc = "start"
    /\ LoaderIdle
    /\ TesterIdle
    /\ StaticIdle

NextNorm == NormalizeOnce \/ NormalizeTwice

SpecNorm == InitNorm /\ [][NextNorm]_vars

InitTester ==
    /\ config \in TesterConfigs
    /\ expectedExists \in BOOLEAN
    /\ action = [ran |-> FALSE, err |-> NoError]
    /\ tpc = "test"
    /\ scans = <<>>
    /\ scanError = NoError
    /\ outResults = <<>>
    /\ outExpectedResults = <<>>
    /\ doneCalls = <<>>
    /\ registered = <<>>
    /\ ran = 0
    /\ reports = <<>>
    /\ customTests \in CustomTests
    /\ suites = <<>>
    /\ steps = <<>>
    /\ LoaderIdle
    /\ NormIdle
    /\ StaticIdle

NextTester ==
    \/ Test
    \/ Create
    \/ Clean
    \/ Install
    \/ GenerateAction
    \/ ResultsExists
    \/ ScanActual
    \/ ScanExpected
    \/ RunSameFiles
    \/ RunSameFileContent
    \/ RunCustom
    \/ FinishUp

SpecTester == InitTester /\ [][NextTester]_vars

InitStatic ==
    /\ testArgs \in StaticArgs
    /\ testRun = NoRun @@ [testerConfig |-> testArgs.testerConfig]
    /\ spc = "start"
    /\ LoaderIdle
    /\ NormIdle
    /\ TesterIdle

NextStatic == StaticTest

SpecStatic == InitStatic /\ [][NextStatic]_vars

(***************************************************************************)
(* The loader's claims                                                      *)
(***************************************************************************)
Hint == Or(argv.edition, argv.directory)

HasPackage == (cwd \o <<"package.json">>) \in fs

Abs(path) == IF isAbsolute(path) THEN path ELSE cwd \o path

OnDisk(path) == IF path \in fs THEN path ELSE NoPath

\* the editions of the package whose directory is the hint
HintCandidates ==
    {i \in 1..Len(pkg.editions) : pkg.editions[i].directory = Hint}

Compatible ==
    {i \in 1..Len(pkg.editions) :
        \A e \in DOMAIN pkg.editions[i].engines :
            /\ e \in DOMAIN versions
            /\ versions[e] >= pkg.editions[i].engines[e]}

\* C1: with a hint and declared editions, the directory is that of the
\* edition whose directory is the hint, selection fails when the hint matches
\* no edition or does not exist, and no edition is selected by auto-detection
C1_HintNeverDetects ==
    (lpc = "done" /\ HasPackage /\ pkg.hasEditions /\ Hint # "") =>
        /\ ~(sel.detected /\ sel.directory # NoPath)
        /\ IF HintCandidates # {} /\ (cwd \o <<Hint>>) \in fs
           THEN sel.directory = cwd \o <<Hint>>
           ELSE sel.threw /\ sel.required = <<>>

\* C2: with declared editions and no hint, the selected edition is the first
\* of the list, in its order, whose engines the runtime satisfies, and
\* selection fails when there is none
C2_FirstMatch ==
    (lpc = "done" /\ HasPackage /\ pkg.hasEditions /\ Hint = "") =>
        IF Compatible = {}
        THEN sel.threw /\ sel.error = "no edition" /\ sel.required = <<>>
        ELSE \E i \in Compatible :
                /\ \A j \in 1..(i - 1) : j \notin Compatible
                /\ sel.directory = <<pkg.editions[i].directory>>
                /\ sel.entry = pkg.editions[i].entry

\* two editions are compatible and the first one was selected and loaded
C2_Witness ==
    /\ lpc = "done" /\ HasPackage /\ pkg.hasEditions /\ Hint = ""
    /\ Compatible = {1, 2}
    /\ pkg.editions[1].engines.node < pkg.editions[2].engines.node
    /\ sel.directory = <<pkg.editions[1].directory>>
    /\ sel.runner # ""

\* C3 as stated: without editions, or with an empty list of them, the
\* directory is the package root and the entry the main of the package,
\* whatever the hint and the runtime, and nothing is auto-detected
C3_Original ==
    (lpc = "done" /\ HasPackage /\ (~pkg.hasEditions \/ pkg.editions = <<>>)) =>
        /\ ~sel.detected
        /\ sel.directory = cwd
        /\ sel.entry = pkg.main

\* C3 amended: without editions, or with an empty list of them, whatever the
\* runtime: a hinted directory that exists is the directory, with the main of
\* the package as entry and nothing auto-detected; otherwise a package with
\* no list gets the package root and its main, nothing auto-detected, and a
\* package with an empty list fails in the auto-detection
C3_NoEditions ==
    (lpc = "done" /\ HasPackage /\ (~pkg.hasEditions \/ pkg.editions = <<>>)) =>
        IF Hint # "" /\ (cwd \o <<Hint>>) \in fs
        THEN /\ ~sel.detected
             /\ sel.entry = pkg.main
             /\ sel.directory = cwd \o <<Hint>>
        ELSE IF ~pkg.hasEditions
        THEN /\ ~sel.detected
             /\ sel.entry = pkg.main
             /\ sel.directory = cwd
        ELSE sel.threw /\ sel.error = "no edition" /\ sel.required = <<>>

\* no editions: once the hinted directory was taken, once the package root
C3_Witness ==
    /\ lpc = "done" /\ HasPackage /\ ~pkg.hasEditions
    /\ sel.entry = pkg.main
    /\ \/ Hint = "edA" /\ sel.directory = EdA /\ sel.runner = "standard"
       \/ Hint = "" /\ sel.directory = cwd /\ sel.runner = "standard"
    /\ versions.node = 6

\* the editions whose directory is the selected one
Chosen ==
    {i \in 1..Len(pkg.editions) :
        Abs(<<pkg.editions[i].directory>>) = Abs(sel.directory)}

\* C4: the entry that is resolved and loaded is that of the chosen edition,
\* in the directory of that edition under the package root
C4_EntryOfCandidate ==
    (lpc = "done" /\ HasPackage /\ pkg.hasEditions /\ sel.main # NoPath) =>
        \A i \in Chosen :
            /\ sel.entry = pkg.editions[i].entry
            /\ sel.main =
                  cwd \o <<pkg.editions[i].directory, pkg.editions[i].entry>>

WithExtension(path, ext) ==
    [path EXCEPT ![Len(path)] = path[Len(path)] \o "." \o ext]

\* C5 as stated: the main is the joined path when it exists, else the first
\* of the paths with js and mjs appended that exists, else not found
C5_Original ==
    (lpc = "done" /\ sel.directory # NoPath /\ sel.entry # "") =>
        LET bare == Abs(sel.directory) \o <<sel.entry>>
        IN  sel.main =
              IF bare \in fs THEN bare
              ELSE IF WithExtension(bare, "js") \in fs
              THEN WithExtension(bare, "js")
              ELSE OnDisk(WithExtension(bare, "mjs"))

\* C5 amended: the main is the joined path when it exists and not found
\* otherwise; no extension is appended
C5_ResolveExact ==
    (lpc = "done" /\ sel.directory # NoPath) =>
        /\ sel.main = IF sel.entry = "" THEN NoPath
                      ELSE OnDisk(Abs(sel.directory) \o <<sel.entry>>)
        /\ sel.main # NoPath => sel.main \in fs

\* only index.mjs is on disk, the entry is index, and the main is not found
C5_Witness ==
    /\ lpc = "done" /\ sel.directory = EdB /\ sel.entry = "index"
    /\ (EdB \o <<"index">>) \notin fs
    /\ (EdB \o <<"index.js">>) \notin fs
    /\ (EdB \o <<"index.mjs">>) \in fs
    /\ sel.main = NoPath

\* the files that are neither a test file nor a tester file
Sources ==
    {f \in fs : f[Len(f)] \notin {"test.js", "tester.js", "test.mjs",
                                   "tester.mjs", "test", "tester"}}

\* the directory and the entry that the package, the arguments and the
\* runtime give over a set of files
SelectedFrom(files) ==
    LET dir == IF Hint # "" /\ (cwd \o <<Hint>>) \in files
               THEN cwd \o <<Hint>> ELSE NoPath
        first == CHOOSE i \in Compatible :
                    \A j \in 1..(i - 1) : j \notin Compatible
    IN  IF ~pkg.hasEditions
        THEN [directory |-> IF dir # NoPath THEN dir ELSE cwd,
              entry |-> pkg.main]
        ELSE IF dir # NoPath THEN [directory |-> dir, entry |-> pkg.main]
        ELSE [directory |-> <<pkg.editions[first].directory>>,
              entry |-> pkg.editions[first].entry]

\* C15: once the directory and the entry are fixed, the test file of the
\* directory, when there is one, is the only file loaded; otherwise the
\* plugin is loaded and handed to the test of the tester file of the
\* directory, when there is one, and to the test of the standard tester
\* otherwise; the directory and the entry are those that the files other
\* than test and tester files give
C15_RunnerPrecedence ==
    (lpc = "done" /\ sel.directory # NoPath) =>
        LET dir == Abs(sel.directory)
            main == dir \o <<sel.entry>>
            test == dir \o <<"test" \o extname(sel.entry)>>
            tester == dir \o <<"tester" \o extname(sel.entry)>>
        IN  /\ test \in fs =>
                  /\ sel.runner = "test" /\ sel.required = <<test>>
                  /\ ~sel.threw
            /\ (test \notin fs /\ main \in fs /\ tester \in fs) =>
                  /\ sel.runner = "tester" /\ sel.required = <<main, tester>>
                  /\ ~sel.threw
            /\ (test \notin fs /\ main \in fs /\ tester \notin fs) =>
                  /\ sel.runner = "standard"
                  /\ sel.required = <<main, <<"standard">>>>
                  /\ ~sel.threw
            /\ (test \notin fs /\ main \notin fs) =>
                  /\ sel.threw /\ sel.runner = "" /\ sel.required = <<>>
            /\ sel.directory = SelectedFrom(Sources).directory
            /\ sel.entry = SelectedFrom(Sources).entry

\* the directory has the plugin, a test file and a tester file: the test
\* file alone is loaded
C15_Witness ==
    /\ lpc = "done" /\ sel.directory = <<"edA">> /\ sel.entry = "main.js"
    /\ {EdA \o <<"main.js">>, EdA \o <<"test.js">>,
         EdA \o <<"tester.js">>} \subseteq fs
    /\ sel.runner = "test"
    /\ sel.required = <<EdA \o <<"test.js">>>>

(***************************************************************************)
(* The normalisation's claims                                               *)
(***************************************************************************)
\* C10 as stated: in the modes trim and remove, with or without a content
\* removal pattern, normalising a normalised content changes nothing
C10_Original ==
    (npc = "twice" /\ mode(nConfig) \in {"trim", "remove"}) => nTwice = nOnce

\* C10 amended: in the modes trim and remove and without a content removal
\* pattern, normalising a normalised content changes nothing
C10_Idempotent ==
    (npc = "twice" /\ mode(nConfig) \in {"trim", "remove"}
        /\ nConfig.contentRemoveRegex = NoRegex) => nTwice = nOnce

\* a content that the trim changes, normalised twice without a pattern
C10_Witness ==
    /\ npc = "twice" /\ mode(nConfig) = "trim"
    /\ nConfig.contentRemoveRegex = NoRegex
    /\ nText = <<" ", "a", "\n", "\n">>
    /\ nOnce = <<"a">>
    /\ nTwice = nOnce

\* the lines of a text, each without the whitespace around it, the empty
\* ones left out
FirstInk(line) ==
    IF \A i \in 1..Len(line) : line[i] \in {" ", "\t"} THEN 0
    ELSE CHOOSE i \in 1..Len(line) :
            /\ line[i] \notin {" ", "\t"}
            /\ \A j \in 1..(i - 1) : line[j] \in {" ", "\t"}

LastInk(line) ==
    IF \A i \in 1..Len(line) : line[i] \in {" ", "\t"} THEN 0
    ELSE CHOOSE i \in 1..Len(line) :
            /\ line[i] \notin {" ", "\t"}
            /\ \A j \in (i + 1)..Len(line) : line[j] \in {" ", "\t"}

RECURSIVE InkLines(_, _)
InkLines(text, line) ==
    LET ink == IF FirstInk(line) = 0 THEN <<>>
               ELSE <<SubSeq(line, FirstInk(line), LastInk(line))>>
    IN  IF text = <<>> THEN ink
        ELSE IF Head(text) = "\n" THEN ink \o InkLines(Tail(text), <<>>)
        ELSE InkLines(Tail(text), Append(line, Head(text)))

\* the texts that differ from the text at most in the whitespace around
\* their lines and in their empty or whitespace only lines
SameInk(text) == {t \in Texts : InkLines(t, <<>>) = InkLines(text, <<>>)}

Tidy(text) ==
    /\ Len(text) > 0 => text[1] \notin {" ", "\t", "\n"}
    /\ Len(text) > 0 => text[Len(text)] \notin {" ", "\t", "\n"}
    /\ \A i \in 1..(Len(text) - 1) :
            text[i] = "\n" => text[i + 1] \notin {" ", "\t", "\n"}
    /\ \A i \in 2..Len(text) :
            text[i] = "\n" => text[i - 1] \notin {" ", "\t", "\n"}

OnlyTrim(c) == mode(c) = "trim" /\ c.contentRemoveRegex = NoRegex

\* C11: in the mode trim, every text that differs from the text only in the
\* whitespace around its lines and in its empty or whitespace only lines is
\* normalised to the same content, so that their comparison passes, and the
\* normalised content has no empty line and no line with whitespace around it
C11_TrimIgnoresIndentation ==
    (npc = "once" /\ OnlyTrim(nConfig)) =>
        /\ Tidy(nOnce)
        /\ \A t \in SameInk(nText) :
              /\ normalize(t, nConfig) = nOnce
              /\ sameFileContent("a.txt", [k \in {"a.txt"} |-> nText],
                                 [k \in {"a.txt"} |-> t], nConfig).outcome
                    = "pass"

\* a text with an empty line, trimmed to two lines as the text with an
\* indented line is
C11_Witness ==
    /\ npc = "once" /\ OnlyTrim(nConfig)
    /\ nText = <<"a", "\n", "\n", "b">>
    /\ nOnce = <<"a", "\n", "b">>
    /\ <<"a", "\n", " ", "b">> \in SameInk(nText)

(***************************************************************************)
(* The tester's claims                                                      *)
(***************************************************************************)
\* the files of the expected tree that the actual tree does not have
Missing == DOMAIN outExpectedResults \ DOMAIN outResults

\* the files of the actual tree that the expected tree does not have
Unexpected == DOMAIN outResults \ DOMAIN outExpectedResults

ReportedAs(msg) ==
    UNION {Range(reports[i].actual) :
              i \in {j \in 1..Len(reports) :
                        /\ reports[j].name = "same files"
                        /\ reports[j].message = <<msg>>}}

SameFilesRan == \E i \in 1..Len(reports) : reports[i].name = "same files"

\* C6: once the same files test has run, the missing files and the
\* unexpected files are both reported; missing files never keep the
\* unexpected files from being reported
C6_BothListsReported ==
    (SameFilesRan /\ Missing # {} /\ Unexpected # {}) =>
        /\ ReportedAs("The following file(s) should have been generated")
              = Missing
        /\ ReportedAs("The following file(s) should not have been generated")
              = Unexpected

\* C7: a content test runs only for a path of both trees, and none ends in
\* a runtime error: a path of the actual tree alone is only reported as
\* unexpected
C7_ContentOnlyForCommon ==
    \A i \in 1..Len(reports) :
        reports[i].name = "same file content for" =>
            /\ reports[i].key \in DOMAIN outResults
            /\ reports[i].key \in DOMAIN outExpectedResults
            /\ reports[i].outcome # "TypeError"

\* the positions before the suite results starts, and after it has called
\* its done
Before == {"test", "create", "clean", "install", "action"}

After == {"run", "custom", "finish up", "end"}

\* C8: when outExpectedPath does not exist, no tree is scanned and no test
\* is registered, and the results suite completes, once and without error,
\* after the generate action has run
C8_SkipWithoutExpected ==
    (tpc # "idle" /\ ~expectedExists) =>
        /\ scans = <<>>
        /\ registered = <<>>
        /\ reports = <<>>
        /\ tpc \in Before \cup {"results"} \cup After
        /\ tpc \in After => (doneCalls = <<NoError>> /\ action.ran)
        /\ tpc \notin After => doneCalls = <<>>

\* the results suite has completed without outExpectedPath
C8_Witness ==
    /\ ~expectedExists /\ tpc = "run"
    /\ action.ran /\ doneCalls = <<NoError>> /\ scans = <<>>

\* C9: when a scan fails, the results suite completes with that error, once,
\* no test is registered or reported, and after a failure of the scan of
\* outPath, outExpectedPath is not scanned
C9_ScanFailureAborts ==
    scanError # NoError =>
        /\ expectedExists
        /\ tpc \in After
        /\ doneCalls = <<scanError>>
        /\ registered = <<>>
        /\ reports = <<>>
        /\ scanError = "outPath error" => scans = <<"outPath">>
        /\ scanError = "outExpectedPath error" =>
              scans = <<"outPath", "outExpectedPath">>

\* the scan of outPath has failed and the results suite has completed
C9_Witness ==
    /\ expectedExists /\ tpc = "run"
    /\ scanError = "outPath error"
    /\ doneCalls = <<"outPath error">>
    /\ scans = <<"outPath">>

\* the content tests that compared a file of both trees, as the index of
\* their report
Compared ==
    {i \in 1..Len(reports) :
        /\ reports[i].name = "same file content for"
        /\ reports[i].key \in DOMAIN outResults
        /\ reports[i].key \in DOMAIN outExpectedResults}

\* the content after the removal of the matches of the pattern, when there
\* is a pattern
Patterned(text) ==
    IF config.contentRemoveRegex = NoRegex THEN text
    ELSE contentRemove(text, config.contentRemoveRegex)

\* the labels of the mode transforms in the message of a comparison
Labels(i) ==
    {l \in {"with whitespace removed", "with whitespace trimmed"} :
        \E j \in 1..Len(reports[i].message) : reports[i].message[j] = l}

\* C12: each compared file gets one mode transform, the same on the actual
\* and on the expected side: the removal whenever whitespace is 'remove' or
\* removeWhitespace is set, whatever whitespace is; no transform when
\* whitespace is false and removeWhitespace is not set; the trim otherwise
C12_OneModeBothSides ==
    \A i \in Compared :
        LET actual == outResults[reports[i].key]
            expected == outExpectedResults[reports[i].key]
        IN  /\ (config.whitespace = "remove" \/ config.removeWhitespace) =>
                  /\ reports[i].actual
                        = Patterned(removeWhitespaceRegex(actual))
                  /\ reports[i].expected
                        = Patterned(removeWhitespaceRegex(expected))
                  /\ Labels(i) = {"with whitespace removed"}
            /\ (config.whitespace = "false" /\ ~config.removeWhitespace) =>
                  /\ reports[i].actual = Patterned(actual)
                  /\ reports[i].expected = Patterned(expected)
                  /\ Labels(i) = {}
            /\ (config.whitespace = "trim" /\ ~config.removeWhitespace) =>
                  /\ reports[i].actual = Patterned(trimLines(actual))
                  /\ reports[i].expected = Patterned(trimLines(expected))
                  /\ Labels(i) = {"with whitespace trimmed"}

\* with the whitespace 'trim' of the defaults and removeWhitespace set, a
\* file is compared with its whitespace removed, not trimmed
C12_Witness ==
    /\ config.whitespace = "trim" /\ config.removeWhitespace
    /\ config.contentRemoveRegex = NoRegex
    /\ \E i \in Compared :
            /\ outResults[reports[i].key] = <<"a", " ", "b">>
            /\ reports[i].actual = <<"a", "b">>
            /\ outExpectedResults[reports[i].key] = <<"a", "\n">>
            /\ reports[i].expected = <<"a">>
            /\ reports[i].outcome = "AssertionError"

\* the names of the steps that ran, in the order in which they ran
Names == [i \in 1..Len(steps) |-> steps[i].name]

\* the order of the steps of a run that registers the custom tests and
\* finish up
Lifecycle ==
    <<"create", "clean", "install", "generate", "custom", "destroy">>

\* the steps that ran are the first steps of the lifecycle, those that
\* this run does not have left out
InOrder ==
    LET mine == SelectSeq(Lifecycle, LAMBDA n :
                    /\ n = "custom" => customTests # <<>>
                    /\ n = "destroy" => truthy(config.autoExit))
    IN  Len(steps) <= Len(mine) /\ Names = SubSeq(mine, 1, Len(steps))

\* the suite results has started
Comparing ==
    scans # <<>> \/ doneCalls # <<>> \/ registered # <<>> \/ reports # <<>>

ComparisonAfterGenerate == Comparing => (action.ran /\ "generate" \in Range(Names))

DestroyLast ==
    "destroy" \in Range(Names) =>
        /\ truthy(config.autoExit)
        /\ doneCalls # <<>> /\ ran = Len(registered)
        /\ Len(reports) = Len(registered)
        /\ customTests # <<>> => "custom" \in Range(Names)
        /\ Names[Len(steps)] = "destroy"

C14_StaticTest ==
    spc = "done" =>
        LET given == testArgs.testerConfig
        IN  /\ given.testerPath # Absent =>
                  /\ testRun.threw /\ testRun.error = "testerPath"
                  /\ testRun.instances = <<>>
                  /\ testRun.suites = <<>>
            /\ (given.testerPath = Absent /\ given.testerClass # Absent) =>
                  /\ testRun.testerConfig.testerClass = Absent
                  /\ \A i \in 1..Len(testRun.instances) :
                        /\ testRun.instances[i].class # given.testerClass
                        /\ testRun.instances[i].testerConfig.testerClass
                              = Absent
            /\ ~testRun.threw =>
                  /\ Len(testRun.instances) = 1
                  /\ testRun.instances[1].class
                        = (IF given.TesterClass # Absent
                           THEN given.TesterClass ELSE testArgs.this)
                  /\ testRun.suites = <<testRun.instances[1].class>>

\* called with a testerClass and no TesterClass, on an extension of the
\* tester: the tester created is of the extension
C14_Witness ==
    /\ spc = "done"
    /\ testArgs.testerConfig.testerClass = "LegacyTester"
    /\ testArgs.testerConfig.TesterClass = Absent
    /\ testArgs.this = "ExtendedTester"
    /\ ~testRun.threw
    /\ Len(testRun.instances) = 1
    /\ testRun.instances[1].class = "ExtendedTester"
    /\ testRun.testerConfig.testerClass = Absent

====
